---- MODULE Spec2Model ----
(***************************************************************************)
(* Four-voice figured-bass realizer (basso_continuo/src/main.rs).          *)
(*                                                                         *)
(* A Pitch is modelled by its midi_number (a u8, here a natural number).   *)
(* A Voicing is a record of four pitches, a FiguredBassSymbol a record of  *)
(* a bass pitch and the sequence chord_tones.  Scores are f32 values; they *)
(* are modelled bit-exactly as sign / mantissa / exponent records with     *)
(* round-to-nearest-even arithmetic, because candidates whose scores are   *)
(* equal as real numbers can differ in f32 and the selection compares f32. *)
(***************************************************************************)
EXTENDS Integers, Sequences, FiniteSets

(***************************************************************************)
(* Voice ranges in MIDI numbers                                            *)
(***************************************************************************)
SOPRANO_MIN == 60
SOPRANO_MAX == 79
ALTO_MIN == 55
ALTO_MAX == 72
TENOR_MIN == 48
TENOR_MAX == 67
BASS_MIN == 40
BASS_MAX == 60

(***************************************************************************)
(* Bounds of the model                                                     *)
(***************************************************************************)
MaxLen == 3
MaxTones == 3

(***************************************************************************)
(* f32 arithmetic.  A finite f32 is [s, m, e] with value (-1)^s * m * 2^e  *)
(* and 2^23 <= m < 2^24, or m = 0 for zero (the sign of zero is not kept:  *)
(* the program only adds and compares, which do not observe it).           *)
(***************************************************************************)
F32Zero == [s |-> 0, m |-> 0, e |-> 0]

\* The number of bits of n >= 0, counted up from b, given n >= 2^(b-1) or b = 0
RECURSIVE BitLenFrom(_, _)
BitLenFrom(n, b) == IF n < 2^b THEN b ELSE BitLenFrom(n, b + 1)

BitLen(n) ==
    IF n >= 2^26 THEN BitLenFrom(n, 27)
    ELSE IF n >= 2^22 THEN BitLenFrom(n, 23)
    ELSE IF n >= 2^8 THEN BitLenFrom(n, 9)
    ELSE BitLenFrom(n, 0)

\* The f32 nearest to (-1)^s * mag * 2^e, ties to even; 0 <= mag < 2^31.
F32Round(s, mag, e) ==
    IF mag = 0 THEN F32Zero
    ELSE LET bits == BitLen(mag) IN
         IF bits <= 24
         THEN [s |-> s, m |-> mag * 2^(24 - bits), e |-> e - (24 - bits)]
         ELSE LET k    == bits - 24
                  q    == mag \div 2^k
                  r    == mag % 2^k
                  half == 2^(k - 1)
                  up   == r > half \/ (r = half /\ q % 2 = 1)
                  q2   == IF up THEN q + 1 ELSE q
              IN IF q2 = 2^24
                 THEN [s |-> s, m |-> 2^23, e |-> e + k + 1]
                 ELSE [s |-> s, m |-> q2, e |-> e + k]

\* n as f32, for an integer n with |n| < 2^24 (exact).
F32FromInt(n) == IF n < 0 THEN F32Round(1, 0 - n, 0) ELSE F32Round(0, n, 0)

\* |x| > |y| for nonzero x, y
F32MagGt(x, y) == x.e > y.e \/ (x.e = y.e /\ x.m > y.m)

F32Sign(x) == IF x.m = 0 THEN 0 ELSE IF x.s = 0 THEN 1 ELSE -1

\* x > y
F32Gt(x, y) ==
    IF F32Sign(x) # F32Sign(y) THEN F32Sign(x) > F32Sign(y)
    ELSE IF F32Sign(x) = 0 THEN FALSE
    ELSE IF F32Sign(x) = 1 THEN F32MagGt(x, y)
    ELSE F32MagGt(y, x)

\* x + y, correctly rounded: the operand of smaller magnitude is aligned
\* with three extra bits (guard, round, sticky).
F32Add(x, y) ==
    IF x.m = 0 THEN y
    ELSE IF y.m = 0 THEN x
    ELSE LET big   == IF F32MagGt(y, x) THEN y ELSE x
             small == IF F32MagGt(y, x) THEN x ELSE y
             d     == big.e - small.e
             A     == big.m * 8
             full  == small.m * 8
             Bq    == IF d >= 27 THEN 0 ELSE full \div 2^d
             lost  == IF d >= 27 THEN TRUE ELSE full % 2^d # 0
             B     == IF lost /\ Bq % 2 = 0 THEN Bq + 1 ELSE Bq
         IN IF big.s = small.s
            THEN F32Round(big.s, A + B, big.e - 3)
            ELSE F32Round(big.s, A - B, big.e - 3)

F32Neg(x) == IF x.m = 0 THEN x ELSE [x EXCEPT !.s = 1 - x.s]

\* x - y
F32Sub(x, y) == F32Add(x, F32Neg(y))

\* (n as f32) * x for an integer 0 <= n < 128, correctly rounded.
F32MulInt(n, x) == F32Round(x.s, n * x.m, x.e)

\* The f32 literals of the program.
F32Tenth == [s |-> 0, m |-> 13421773, e |-> -27]
F32MIN == [s |-> 1, m |-> 16777215, e |-> 104]

(***************************************************************************)
(* Pitch                                                                   *)
(***************************************************************************)
PitchClass(midi_number) == midi_number % 12

Abs(x) == IF x < 0 THEN 0 - x ELSE x

Signum(x) == IF x > 0 THEN 1 ELSE IF x < 0 THEN -1 ELSE 0

Voicing(soprano, alto, tenor, bass) ==
    [soprano |-> soprano, alto |-> alto, tenor |-> tenor, bass |-> bass]

FiguredBassSymbol(bass, chord_tones) ==
    [bass |-> bass, chord_tones |-> chord_tones]

(***************************************************************************)
(* Voicing generation                                                      *)
(***************************************************************************)
RECURSIVE RaiseToMin(_, _)
RaiseToMin(midi, min) ==
    IF midi < min THEN RaiseToMin(midi + 12, min) ELSE midi

\* PushOctaves with the upper end of the range excluded
RECURSIVE PushOctavesExclusive(_, _, _)
PushOctavesExclusive(notes, midi, max) ==
    IF midi < max THEN PushOctavesExclusive(Append(notes, midi), midi + 12, max)
    ELSE notes

RECURSIVE PushOctaves(_, _, _)
PushOctaves(notes, midi, max) ==
    IF midi <= max THEN PushOctaves(Append(notes, midi), midi + 12, max)
    ELSE notes

RECURSIVE CollectNotes(_, _, _, _, _)
CollectNotes(notes, chord_tones, k, min, max) ==
    IF k > Len(chord_tones) THEN notes
    ELSE CollectNotes(
             PushOctaves(notes, RaiseToMin(PitchClass(chord_tones[k]), min), max),
             chord_tones, k + 1, min, max)

RECURSIVE Insert(_, _)
Insert(sorted, x) ==
    IF sorted = <<>> THEN <<x>>
    ELSE IF x < Head(sorted) THEN <<x>> \o sorted
    ELSE <<Head(sorted)>> \o Insert(Tail(sorted), x)

RECURSIVE Sort(_)
Sort(notes) ==
    IF notes = <<>> THEN <<>>
    ELSE Insert(Sort(SubSeq(notes, 1, Len(notes) - 1)), notes[Len(notes)])

\* Vec::dedup: removes consecutive repeated elements
RECURSIVE Dedup(_)
Dedup(notes) ==
    IF Len(notes) <= 1 THEN notes
    ELSE IF notes[1] = notes[2] THEN Dedup(Tail(notes))
    ELSE <<notes[1]>> \o Dedup(Tail(notes))

get_notes_in_range(chord_tones, min, max) ==
    Dedup(Sort(CollectNotes(<<>>, chord_tones, 1, min, max)))

VoicingPcs(voicing) ==
    { PitchClass(voicing.soprano), PitchClass(voicing.alto),
      PitchClass(voicing.tenor), PitchClass(voicing.bass) }

\* is_valid_voicing without the check of the tenor against the bass
is_valid_voicing_NoBassCheck(voicing, chord_tones) ==
    /\ ~(voicing.soprano < voicing.alto)
    /\ ~(voicing.alto < voicing.tenor)
    /\ ~(voicing.soprano - voicing.alto > 12)
    /\ ~(voicing.alto - voicing.tenor > 12)
    /\ \A k \in 1..Len(chord_tones) :
           PitchClass(chord_tones[k]) \in
               { PitchClass(voicing.soprano), PitchClass(voicing.alto),
                 PitchClass(voicing.tenor), PitchClass(voicing.bass) }

\* is_valid_voicing with the last chord tone left out of the coverage check
is_valid_voicing_SkipsLastTone(voicing, chord_tones) ==
    /\ ~(voicing.soprano < voicing.alto)
    /\ ~(voicing.alto < voicing.tenor)
    /\ ~(voicing.tenor < voicing.bass)
    /\ ~(voicing.soprano - voicing.alto > 12)
    /\ ~(voicing.alto - voicing.tenor > 12)
    /\ \A k \in 1..(Len(chord_tones) - 1) :
           PitchClass(chord_tones[k]) \in VoicingPcs(voicing)

is_valid_voicing(voicing, chord_tones) ==
    /\ ~(voicing.soprano < voicing.alto)
    /\ ~(voicing.alto < voicing.tenor)
    /\ ~(voicing.tenor < voicing.bass)
    /\ ~(voicing.soprano - voicing.alto > 12)
    /\ ~(voicing.alto - voicing.tenor > 12)
    /\ \A k \in 1..Len(chord_tones) :
           PitchClass(chord_tones[k]) \in VoicingPcs(voicing)

\* The combinations in loop order: soprano outer, alto middle, tenor inner.
Combinations(soprano_notes, alto_notes, tenor_notes, bass) ==
    LET ns == Len(soprano_notes)
        na == Len(alto_notes)
        nt == Len(tenor_notes)
    IN [n \in 1..(ns * na * nt) |->
           Voicing(soprano_notes[((n - 1) \div (na * nt)) + 1],
                   alto_notes[(((n - 1) \div nt) % na) + 1],
                   tenor_notes[((n - 1) % nt) + 1],
                   bass)]

generate_voicings(symbol) ==
    LET soprano_notes == get_notes_in_range(symbol.chord_tones, SOPRANO_MIN, SOPRANO_MAX)
        alto_notes    == get_notes_in_range(symbol.chord_tones, ALTO_MIN, ALTO_MAX)
        tenor_notes   == get_notes_in_range(symbol.chord_tones, TENOR_MIN, TENOR_MAX)
        IsValid(v)    == is_valid_voicing(v, symbol.chord_tones)
    IN SelectSeq(Combinations(soprano_notes, alto_notes, tenor_notes, symbol.bass),
                 IsValid)

(***************************************************************************)
(* Scoring functions                                                       *)
(***************************************************************************)
\* Option<&Voicing>: the empty sequence is None, a one-element sequence Some
None == <<>>
Some(v) == <<v>>

Voices(v) == <<v.soprano, v.alto, v.tenor, v.bass>>

RECURSIVE DoublingLoop(_, _, _, _)
DoublingLoop(score, voices, k, root_pc) ==
    IF k > Len(voices) THEN score
    ELSE DoublingLoop(
             IF PitchClass(voices[k]) = root_pc
             THEN F32Add(score, F32FromInt(10)) ELSE score,
             voices, k + 1, root_pc)

doubling_score(voicing, root) ==
    DoublingLoop(F32Zero, Voices(voicing), 1, PitchClass(root))

\* (gap - 7) as f32 * 2.0 is exact.  The gaps are u8 differences; every
\* voicing scored by the program has passed is_valid_voicing, so they are
\* not negative.
spacing_score(voicing) ==
    LET sop_alto_gap   == voicing.soprano - voicing.alto
        alto_tenor_gap == voicing.alto - voicing.tenor
        s1 == IF sop_alto_gap > 7
              THEN F32Sub(F32Zero, F32FromInt((sop_alto_gap - 7) * 2))
              ELSE F32Zero
    IN IF alto_tenor_gap > 7
       THEN F32Sub(s1, F32FromInt((alto_tenor_gap - 7) * 2))
       ELSE s1

range_comfort_score(voicing) ==
    LET soprano_mid == (SOPRANO_MIN + SOPRANO_MAX) \div 2
        alto_mid    == (ALTO_MIN + ALTO_MAX) \div 2
        tenor_mid   == (TENOR_MIN + TENOR_MAX) \div 2
        s1 == F32Sub(F32Zero, F32MulInt(Abs(voicing.soprano - soprano_mid), F32Tenth))
        s2 == F32Sub(s1, F32MulInt(Abs(voicing.alto - alto_mid), F32Tenth))
    IN F32Sub(s2, F32MulInt(Abs(voicing.tenor - tenor_mid), F32Tenth))

\* PairIsParallel without the comparison of the directions of motion
PairIsParallelAnyDirection(voices1, voices2, i, j) ==
    LET interval1 == Abs(voices1[i + 1] - voices1[j + 1])
        interval2 == Abs(voices2[i + 1] - voices2[j + 1])
        motion1   == voices2[i + 1] - voices1[i + 1]
        motion2   == voices2[j + 1] - voices1[j + 1]
    IN /\ (interval1 = 7 \/ interval1 = 12) /\ interval1 = interval2
       /\ motion1 # 0 /\ motion2 # 0

\* The body of the loop over the voice pairs (i, j), 0-based as in the code
PairIsParallel(voices1, voices2, i, j) ==
    LET interval1 == Abs(voices1[i + 1] - voices1[j + 1])
        interval2 == Abs(voices2[i + 1] - voices2[j + 1])
        motion1   == voices2[i + 1] - voices1[i + 1]
        motion2   == voices2[j + 1] - voices1[j + 1]
    IN /\ (interval1 = 7 \/ interval1 = 12) /\ interval1 = interval2
       /\ motion1 # 0 /\ motion2 # 0 /\ Signum(motion1) = Signum(motion2)

\* PenaltyLoop returning +1000.0 for a parallel pair: a bonus, not a penalty
RECURSIVE PenaltyLoopBonus(_, _, _, _)
PenaltyLoopBonus(voices1, voices2, i, j) ==
    IF i >= 4 THEN F32Zero
    ELSE IF j >= 4 THEN PenaltyLoopBonus(voices1, voices2, i + 1, i + 2)
    ELSE IF PairIsParallel(voices1, voices2, i, j) THEN F32FromInt(1000)
    ELSE PenaltyLoopBonus(voices1, voices2, i, j + 1)

RECURSIVE PenaltyLoop(_, _, _, _)
PenaltyLoop(voices1, voices2, i, j) ==
    IF i >= 4 THEN F32Zero
    ELSE IF j >= 4 THEN PenaltyLoop(voices1, voices2, i + 1, i + 2)
    ELSE IF PairIsParallel(voices1, voices2, i, j) THEN F32FromInt(-1000)
    ELSE PenaltyLoop(voices1, voices2, i, j + 1)

parallel_motion_penalty(v1, v2) == PenaltyLoop(Voices(v1), Voices(v2), 0, 1)

\* -0.5 * (total_motion as f32) is exact: total_motion * 2^-1
voice_motion_score(v1, v2) ==
    LET total_motion == Abs(v2.soprano - v1.soprano)
                        + Abs(v2.alto - v1.alto)
                        + Abs(v2.tenor - v1.tenor)
    IN F32Round(1, total_motion, -1)

contrary_motion_bonus(v1, v2) ==
    LET sop_motion  == v2.soprano - v1.soprano
        bass_motion == v2.bass - v1.bass
    IN IF sop_motion # 0 /\ bass_motion # 0
          /\ Signum(sop_motion) # Signum(bass_motion)
       THEN F32Add(F32Zero, F32FromInt(5))
       ELSE F32Zero

\* score_voicing with the parallel-motion penalty left out
score_voicing_NoPenalty(voicing, prev, root) ==
    LET static == F32Add(F32Add(F32Add(F32Zero, doubling_score(voicing, root)),
                                spacing_score(voicing)),
                         range_comfort_score(voicing))
    IN IF prev # None
       THEN F32Add(F32Add(static, voice_motion_score(prev[1], voicing)),
                   contrary_motion_bonus(prev[1], voicing))
       ELSE static

score_voicing(voicing, prev, root) ==
    LET static == F32Add(F32Add(F32Add(F32Zero, doubling_score(voicing, root)),
                                spacing_score(voicing)),
                         range_comfort_score(voicing))
    IN IF prev # None
       THEN F32Add(F32Add(F32Add(static, parallel_motion_penalty(prev[1], voicing)),
                          voice_motion_score(prev[1], voicing)),
                   contrary_motion_bonus(prev[1], voicing))
       ELSE static

\* BestLoop with score >= best_score: the last maximum wins
RECURSIVE BestLoopLastMax(_, _, _, _, _, _)
BestLoopLastMax(candidates, k, prev, root, best_voicing, best_score) ==
    IF k > Len(candidates) THEN best_voicing
    ELSE LET score == score_voicing(candidates[k], prev, root)
         IN IF ~F32Gt(best_score, score)
            THEN BestLoopLastMax(candidates, k + 1, prev, root, Some(candidates[k]), score)
            ELSE BestLoopLastMax(candidates, k + 1, prev, root, best_voicing, best_score)

\* The loop "Find best voicing": best is None or Some(candidate)
RECURSIVE BestLoop(_, _, _, _, _, _)
BestLoop(candidates, k, prev, root, best_voicing, best_score) ==
    IF k > Len(candidates) THEN best_voicing
    ELSE LET score == score_voicing(candidates[k], prev, root)
         IN IF F32Gt(score, best_score)
            THEN BestLoop(candidates, k + 1, prev, root, Some(candidates[k]), score)
            ELSE BestLoop(candidates, k + 1, prev, root, best_voicing, best_score)

find_best(candidates, prev, root) ==
    BestLoop(candidates, 1, prev, root, None, F32MIN)

(***************************************************************************)
(* Inputs                                                                  *)
(***************************************************************************)
\* The chords of main()
CMajor == FiguredBassSymbol(48, <<48, 52, 55>>)
FMajor == FiguredBassSymbol(53, <<53, 57, 60>>)
GMajor == FiguredBassSymbol(55, <<55, 59, 62>>)
MainProgression == <<CMajor, FMajor, GMajor, CMajor>>

\* A minor in root position, and a chord of five pitch classes (four voices
\* cannot cover it, so it has no valid voicing)
AMinor == FiguredBassSymbol(57, <<57, 60, 64>>)
FiveTones == FiguredBassSymbol(48, <<48, 50, 52, 55, 57>>)

ChordSet == {CMajor, FMajor, GMajor, AMinor, FiveTones}

SeqsUpTo(S, n) == UNION {[1..k -> S] : k \in 0..n}

\* Every progression of up to MaxLen chords, and the one of main()
Progressions == SeqsUpTo(ChordSet, MaxLen) \cup {MainProgression}

\* Inputs of generate_voicings: a bass inside, at the top of and above the
\* bass range; chord tones in any order, with repetitions, up to u8::MAX;
\* and a chord without tones
GenBasses == {48, 60, 62}
TonePool == {48, 52, 55, 62, 255}
GenSymbols ==
    {FiguredBassSymbol(b, t) : b \in GenBasses,
                               t \in SeqsUpTo(TonePool, MaxTones) \ {<<>>}}
    \cup {FiguredBassSymbol(60, <<>>)}

\* Inputs of parallel_motion_penalty: any four pitches each (fifths and
\* octaves apart), valid voicing or not
PenPool == {48, 55, 60, 67}
PenVoicings == {Voicing(s, a, t, b) : s \in PenPool, a \in PenPool,
                                      t \in PenPool, b \in PenPool}

(***************************************************************************)
(* State                                                                   *)
(***************************************************************************)
VARIABLES
    symbols,        \* realize_figured_bass: the input slice
    i,              \* the loop index (0-based)
    result,         \* the Vec being built
    pc,             \* "loop", "returned" or "panicked"
    panic,          \* None, or Some(index named by the panic message)
    returned,       \* None, or Some(the Vec returned to the caller)
    symbol,         \* generate_voicings: its argument
    soprano_notes,  \* and its locals
    alto_notes,
    tenor_notes,
    voicings,       \* the Vec it returns
    gen_pc,         \* "idle", "start" or "done"
    v1,             \* parallel_motion_penalty: its arguments
    v2,
    penalty,        \* and its result
    pen_pc          \* "idle", "start" or "done"

realize_vars == <<symbols, i, result, pc, panic, returned>>
gen_vars == <<symbol, soprano_notes, alto_notes, tenor_notes, voicings, gen_pc>>
pen_vars == <<v1, v2, penalty, pen_pc>>
vars == <<realize_vars, gen_vars, pen_vars>>

RealizeIdle ==
    /\ symbols = <<>> /\ i = 0 /\ result = <<>> /\ pc = "idle"
    /\ panic = None /\ returned = None

GenIdle ==
    /\ symbol = CMajor /\ soprano_notes = <<>> /\ alto_notes = <<>>
    /\ tenor_notes = <<>> /\ voicings = <<>> /\ gen_pc = "idle"

PenIdle ==
    /\ v1 = Voicing(0, 0, 0, 0) /\ v2 = Voicing(0, 0, 0, 0)
    /\ penalty = F32Zero /\ pen_pc = "idle"

(***************************************************************************)
(* realize_figured_bass                                                    *)
(***************************************************************************)
Init ==
    /\ symbols \in Progressions
    /\ i = 0
    /\ result = <<>>
    /\ pc = "loop"
    /\ panic = None
    /\ returned = None
    /\ GenIdle /\ PenIdle

\* Panic naming the chord by its 1-based number, as main() prints chords
PanicOneBased ==
    /\ pc = "loop"
    /\ i < Len(symbols)
    /\ generate_voicings(symbols[i + 1]) = <<>>
    /\ pc' = "panicked"
    /\ panic' = Some(i + 1)
    /\ UNCHANGED <<symbols, i, result, returned, gen_vars, pen_vars>>

\* One iteration of the loop whose candidates are empty: panic!(.., i).
\* The unwinding drops result; nothing is returned.
Panic ==
    /\ pc = "loop"
    /\ i < Len(symbols)
    /\ generate_voicings(symbols[i + 1]) = <<>>
    /\ pc' = "panicked"
    /\ panic' = Some(i)
    /\ UNCHANGED <<symbols, i, result, returned, gen_vars, pen_vars>>

\* SelectBest inserting the best voicing at the front of result
SelectBestAtFront ==
    /\ pc = "loop"
    /\ i < Len(symbols)
    /\ LET candidates == generate_voicings(symbols[i + 1])
           prev == IF i > 0 THEN Some(result[i]) ELSE None
       IN /\ candidates # <<>>
          /\ result' = <<find_best(candidates, prev, symbols[i + 1].bass)[1]>> \o result
    /\ i' = i + 1
    /\ UNCHANGED <<symbols, pc, panic, returned, gen_vars, pen_vars>>

\* One iteration of the loop with candidates: the best one is pushed.
\* best_voicing is Some: every score is greater than f32::MIN.
SelectBest ==
    /\ pc = "loop"
    /\ i < Len(symbols)
    /\ LET candidates == generate_voicings(symbols[i + 1])
           prev == IF i > 0 THEN Some(result[i]) ELSE None
       IN /\ candidates # <<>>
          /\ result' = Append(result, find_best(candidates, prev, symbols[i + 1].bass)[1])
    /\ i' = i + 1
    /\ UNCHANGED <<symbols, pc, panic, returned, gen_vars, pen_vars>>

\* The loop is over: result is returned
Return ==
    /\ pc = "loop"
    /\ i = Len(symbols)
    /\ pc' = "returned"
    /\ returned' = Some(result)
    /\ UNCHANGED <<symbols, i, result, panic, gen_vars, pen_vars>>

Next == Panic \/ SelectBest \/ Return

Spec == Init /\ [][Next]_vars

(***************************************************************************)
(* generate_voicings on its own                                            *)
(***************************************************************************)
InitGen ==
    /\ symbol \in GenSymbols
    /\ soprano_notes = <<>> /\ alto_notes = <<>> /\ tenor_notes = <<>>
    /\ voicings = <<>>
    /\ gen_pc = "start"
    /\ RealizeIdle /\ PenIdle

GenerateVoicings ==
    /\ gen_pc = "start"
    /\ soprano_notes' = get_notes_in_range(symbol.chord_tones, SOPRANO_MIN, SOPRANO_MAX)
    /\ alto_notes' = get_notes_in_range(symbol.chord_tones, ALTO_MIN, ALTO_MAX)
    /\ tenor_notes' = get_notes_in_range(symbol.chord_tones, TENOR_MIN, TENOR_MAX)
    /\ voicings' = generate_voicings(symbol)
    /\ gen_pc' = "done"
    /\ UNCHANGED <<symbol, realize_vars, pen_vars>>

NextGen == GenerateVoicings

SpecGen == InitGen /\ [][NextGen]_vars

(***************************************************************************)
(* parallel_motion_penalty on its own                                      *)
(***************************************************************************)
InitPen ==
    /\ v1 \in PenVoicings
    /\ v2 \in PenVoicings
    /\ penalty = F32Zero
    /\ pen_pc = "start"
    /\ RealizeIdle /\ GenIdle

ComputePenalty ==
    /\ pen_pc = "start"
    /\ penalty' = parallel_motion_penalty(v1, v2)
    /\ pen_pc' = "done"
    /\ UNCHANGED <<v1, v2, realize_vars, gen_vars>>

NextPen == ComputePenalty

SpecPen == InitPen /\ [][NextPen]_vars

(***************************************************************************)
(* Vocabulary of the properties                                            *)
(***************************************************************************)
Range(seq) == {seq[k] : k \in 1..Len(seq)}

ChordPcs(sym) == {sym.chord_tones[k] % 12 : k \in 1..Len(sym.chord_tones)}

NonCrossing(v) == v.soprano >= v.alto /\ v.alto >= v.tenor /\ v.tenor >= v.bass

GapsWithinOctave(v) == v.soprano - v.alto <= 12 /\ v.alto - v.tenor <= 12

CoversChord(v, sym) ==
    ChordPcs(sym) \subseteq {v.soprano % 12, v.alto % 12, v.tenor % 12, v.bass % 12}

UpperVoicesInRange(v) ==
    /\ v.soprano \in SOPRANO_MIN..SOPRANO_MAX
    /\ v.alto \in ALTO_MIN..ALTO_MAX
    /\ v.tenor \in TENOR_MIN..TENOR_MAX

AllVoicesInRange(v) == UpperVoicesInRange(v) /\ v.bass \in BASS_MIN..BASS_MAX

VoiceNames == {"soprano", "alto", "tenor", "bass"}

\* Voices a and b are a perfect fifth or an octave apart in w1, the same
\* interval apart in w2, and both moved, in the same direction
ParallelPair(w1, w2, a, b) ==
    /\ Abs(w1[a] - w1[b]) \in {7, 12}
    /\ Abs(w2[a] - w2[b]) = Abs(w1[a] - w1[b])
    /\ (w2[a] - w1[a]) * (w2[b] - w1[b]) > 0

HasParallel(w1, w2) ==
    \E a \in VoiceNames : \E b \in VoiceNames \ {a} : ParallelPair(w1, w2, a, b)

StrictlyAscending(seq) == \A k \in 1..(Len(seq) - 1) : seq[k] < seq[k + 1]

\* The pitches of [min, max] whose pitch class is that of a chord tone
ChordPitches(sym, min, max) == {p \in min..max : p % 12 \in ChordPcs(sym)}

Output == returned[1]

PrevOf(out, k) == IF k > 1 THEN Some(out[k - 1]) ELSE None

(***************************************************************************)
(* Properties of realize_figured_bass (checked under Spec)                 *)
(***************************************************************************)
\* C1: in every realization that completes, every output voicing has
\* soprano >= alto >= tenor >= bass, both upper gaps at most 12, and pitch
\* classes that cover the pitch classes of the chord tones of its chord.
C1_OutputInvariants ==
    pc = "returned" =>
        \A k \in 1..Len(Output) :
            /\ NonCrossing(Output[k])
            /\ GapsWithinOctave(Output[k])
            /\ CoversChord(Output[k], symbols[k])

C1_Witness == pc = "returned" /\ Len(Output) >= 2

\* C4: a panic names the index i of the chord being processed, whose
\* candidates are empty and which is the first such chord; nothing is
\* returned, and no step follows a panic.  A chord without candidates is
\* never passed over: the step taken at such a chord is the panic, and a
\* realization that returned had candidates for every chord.
C4_PanicState ==
    /\ pc = "panicked" =>
           /\ panic = Some(i)
           /\ i < Len(symbols)
           /\ generate_voicings(symbols[i + 1]) = <<>>
           /\ \A k \in 1..i : generate_voicings(symbols[k]) # <<>>
           /\ returned = None
    /\ pc = "returned" =>
           /\ panic = None
           /\ \A k \in 1..Len(symbols) : generate_voicings(symbols[k]) # <<>>

C4_PanicStep ==
    /\ pc = "loop"
    /\ (i < Len(symbols) /\ generate_voicings(symbols[i + 1]) = <<>>) =>
           pc' = "panicked" /\ returned' = None /\ i' = i

C4_PanicAtFirstEmpty == [](C4_PanicState) /\ [][C4_PanicStep]_vars

\* a panic after at least one chord was voiced
C4_Witness == pc = "panicked" /\ i >= 1 /\ Len(result) = i

\* C5: after k+1 chords the output holds k+1 voicings; what was appended
\* is never changed; on completion the output is as long as the input and
\* output[k] is a candidate of input[k] with its bass.
C5_Aligned ==
    /\ pc = "loop" => Len(result) = i /\ i <= Len(symbols)
    /\ pc = "returned" =>
           /\ returned = Some(result)
           /\ Len(Output) = Len(symbols)
           /\ \A k \in 1..Len(Output) :
                  /\ Output[k] \in Range(generate_voicings(symbols[k]))
                  /\ Output[k].bass = symbols[k].bass

C5_Stable ==
    \A k \in 1..Len(result) : Len(result') >= k /\ result'[k] = result[k]

C5_PositionAligned == [](C5_Aligned) /\ [][C5_Stable]_vars

C5_Witness == pc = "returned" /\ Len(Output) = 3

\* The index of out[k] among the candidates cands is that of a maximal
\* score, and every earlier candidate scores strictly less
IsFirstMaximum(cands, prev, root, chosen) ==
    \E j \in 1..Len(cands) :
        /\ cands[j] = chosen
        /\ \A j2 \in 1..Len(cands) :
               ~F32Gt(score_voicing(cands[j2], prev, root),
                      score_voicing(cands[j], prev, root))
        /\ \A j2 \in 1..(j - 1) :
               F32Gt(score_voicing(cands[j], prev, root),
                     score_voicing(cands[j2], prev, root))

\* C6: output[k] has the maximum score among the candidates of input[k],
\* scored against output[k-1] (none for the first chord) and the bass of
\* input[k]; among candidates of maximum score it is the first in
\* generation order.
C6_FirstMaximum ==
    pc = "returned" =>
        \A k \in 1..Len(Output) :
            IsFirstMaximum(generate_voicings(symbols[k]), PrevOf(Output, k),
                           symbols[k].bass, Output[k])

\* a chord for which two candidates share the maximum score
C6_Witness ==
    /\ pc = "returned"
    /\ \E k \in 1..Len(Output) :
           LET cands == generate_voicings(symbols[k]) IN
           \E j \in 1..Len(cands) :
               /\ cands[j] # Output[k]
               /\ score_voicing(cands[j], PrevOf(Output, k), symbols[k].bass)
                      = score_voicing(Output[k], PrevOf(Output, k), symbols[k].bass)

\* C8: the progression of main() is realized without panic into four
\* voicings, each non-crossing, with upper gaps at most 12, covering its
\* chord and with every voice in its range, and no two consecutive ones
\* show parallel fifths or octaves (the penalty between them is 0).
C8_MainProgression ==
    symbols = MainProgression =>
        /\ pc # "panicked"
        /\ pc = "returned" =>
               /\ Len(Output) = 4
               /\ \A k \in 1..Len(Output) :
                      /\ NonCrossing(Output[k])
                      /\ GapsWithinOctave(Output[k])
                      /\ CoversChord(Output[k], MainProgression[k])
                      /\ AllVoicesInRange(Output[k])
               /\ \A k \in 2..Len(Output) :
                      /\ ~HasParallel(Output[k - 1], Output[k])
                      /\ parallel_motion_penalty(Output[k - 1], Output[k]) = F32Zero

C8_Witness == symbols = MainProgression /\ pc = "returned"

\* C10: with every input bass in [40, 60], whenever some candidate of a
\* chord after the first has penalty 0 relative to the previous output,
\* the selected voicing has penalty 0 too.
C10_PenaltyDecides ==
    (\A k \in 1..Len(symbols) : symbols[k].bass \in BASS_MIN..BASS_MAX) =>
        \A k \in 2..Len(result) :
            (\E c \in Range(generate_voicings(symbols[k])) :
                 parallel_motion_penalty(result[k - 1], c) = F32Zero)
            => parallel_motion_penalty(result[k - 1], result[k]) = F32Zero

\* a chord with penalised and unpenalised candidates, where a penalised one
\* would win on the other terms alone
C10_Witness ==
    /\ Len(result) >= 2
    /\ LET k == Len(result)
           cands == generate_voicings(symbols[k])
       IN /\ parallel_motion_penalty(result[k - 1], result[k]) = F32Zero
          /\ \E c \in Range(cands) :
                 /\ parallel_motion_penalty(result[k - 1], c) # F32Zero
                 /\ F32Gt(score_voicing(c, None, symbols[k].bass),
                          score_voicing(result[k], None, symbols[k].bass))

(***************************************************************************)
(* Properties of generate_voicings (checked under SpecGen)                 *)
(***************************************************************************)
\* C2: every voicing that generate_voicings produces has each voice in its
\* range: soprano in [60,79], alto in [55,72], tenor in [48,67] and bass
\* in [40,60].
C2_AllVoicesInRange ==
    gen_pc = "done" => \A k \in 1..Len(voicings) : AllVoicesInRange(voicings[k])

\* The four invariants of a voicing for a chord
FourInvariants(v, sym) ==
    /\ NonCrossing(v)
    /\ GapsWithinOctave(v)
    /\ CoversChord(v, sym)
    /\ AllVoicesInRange(v)

\* C3 as stated: the voicings returned are exactly the four-voice
\* assignments with the bass of the chord that satisfy the four invariants.
C3_ExactlyTheValidVoicings ==
    gen_pc = "done" =>
        Range(voicings) =
            {v \in {Voicing(s, a, t, symbol.bass) :
                        s \in SOPRANO_MIN..SOPRANO_MAX,
                        a \in ALTO_MIN..ALTO_MAX,
                        t \in TENOR_MIN..TENOR_MAX} :
                FourInvariants(v, symbol)}

\* C3 amended: the voicings returned are exactly the assignments with the
\* bass of the chord whose soprano, alto and tenor are each a pitch of the
\* voice's range with the pitch class of a chord tone, and which are
\* non-crossing, have both upper gaps at most 12 and cover the chord; the
\* bass is taken as given, whatever its value.
C3_ExactlyTheChordToneVoicings ==
    gen_pc = "done" =>
        Range(voicings) =
            {v \in {Voicing(s, a, t, symbol.bass) :
                        s \in ChordPitches(symbol, SOPRANO_MIN, SOPRANO_MAX),
                        a \in ChordPitches(symbol, ALTO_MIN, ALTO_MAX),
                        t \in ChordPitches(symbol, TENOR_MIN, TENOR_MAX)} :
                NonCrossing(v) /\ GapsWithinOctave(v) /\ CoversChord(v, symbol)}

\* voicings were produced, and an assignment with a voice on a pitch that
\* is no chord tone satisfies the four invariants
C3_Witness ==
    /\ gen_pc = "done"
    /\ voicings # <<>>
    /\ \E t \in TENOR_MIN..TENOR_MAX :
           /\ t % 12 \notin ChordPcs(symbol)
           /\ FourInvariants([voicings[1] EXCEPT !.tenor = t], symbol)

\* C9: each per-voice list is strictly ascending and holds exactly the
\* pitches of the voice's inclusive range whose pitch class is that of a
\* chord tone, the two ends of the range included.
C9_NotesInRange ==
    gen_pc = "done" =>
        /\ StrictlyAscending(soprano_notes)
        /\ StrictlyAscending(alto_notes)
        /\ StrictlyAscending(tenor_notes)
        /\ Range(soprano_notes) = ChordPitches(symbol, SOPRANO_MIN, SOPRANO_MAX)
        /\ Range(alto_notes) = ChordPitches(symbol, ALTO_MIN, ALTO_MAX)
        /\ Range(tenor_notes) = ChordPitches(symbol, TENOR_MIN, TENOR_MAX)

\* both ends of every range are listed, for chord tones given out of order
\* and with a repetition
C9_Witness ==
    /\ gen_pc = "done"
    /\ symbol.chord_tones = <<55, 48, 55>>
    /\ soprano_notes[1] = SOPRANO_MIN /\ soprano_notes[Len(soprano_notes)] = SOPRANO_MAX
    /\ alto_notes[1] = ALTO_MIN /\ alto_notes[Len(alto_notes)] = ALTO_MAX
    /\ tenor_notes[1] = TENOR_MIN /\ tenor_notes[Len(tenor_notes)] = TENOR_MAX

(***************************************************************************)
(* Properties of parallel_motion_penalty (checked under SpecPen)           *)
(***************************************************************************)
\* Voices a and b are a fifth or an octave apart in w1 and a fifth or an
\* octave apart in w2, and both moved, in the same direction
PerfectPair(w1, w2, a, b) ==
    /\ Abs(w1[a] - w1[b]) \in {7, 12}
    /\ Abs(w2[a] - w2[b]) \in {7, 12}
    /\ (w2[a] - w1[a]) * (w2[b] - w1[b]) > 0

\* C7 as stated: the penalty is -1000 exactly when some pair of voices has
\* an interval of exactly 7 or 12 in the previous voicing and of exactly 7
\* or 12 in the candidate, and both voices moved in the same direction;
\* otherwise it is 0.
C7_PenaltyIffPerfectInBoth ==
    pen_pc = "done" =>
        /\ penalty \in {F32Zero, F32FromInt(-1000)}
        /\ penalty = F32FromInt(-1000) <=>
               \E a \in VoiceNames : \E b \in VoiceNames \ {a} :
                   PerfectPair(v1, v2, a, b)

\* C7 amended: the penalty is -1000 exactly when some pair of voices is a
\* fifth (7) or an octave (12) apart in the previous voicing and the same
\* interval apart in the candidate (7 in both or 12 in both), and both
\* voices moved in the same direction; otherwise it is 0, so it is never
\* below -1000 however many pairs match.
C7_PenaltyIffParallel ==
    pen_pc = "done" =>
        /\ penalty \in {F32Zero, F32FromInt(-1000)}
        /\ penalty = F32FromInt(-1000) <=> HasParallel(v1, v2)

\* several pairs are parallel at once and the penalty is still -1000
C7_Witness ==
    /\ pen_pc = "done"
    /\ penalty = F32FromInt(-1000)
    /\ ParallelPair(v1, v2, "soprano", "alto")
    /\ ParallelPair(v1, v2, "tenor", "bass")

====
